---- MODULE Spec2Model ----
(***************************************************************************)
(* Model of salt/states/boto_iam_role.py: the state functions present and  *)
(* absent of an IAM role, their sub-steps, and the remote IAM account the  *)
(* boto_iam execution module reads and changes.                            *)
(*                                                                         *)
(* One role name is managed (the instance profile has the same name).      *)
(* Python's None is the string "None", True/False results are the strings  *)
(* "True"/"False", a dict of policies is a function from PolicyNames to a  *)
(* document or "None" (name not in the dict).                              *)
(***************************************************************************)
EXTENDS Integers, Sequences, FiniteSets, TLC

VARIABLES
    iam,                      \* the remote IAM account (system of record)
    opts_test,                \* __opts__['test']
    args,                     \* present's arguments policy_document,
                              \* create_instance_profile and delete_policies
    _policies,                \* present's local _policies (merged desired set)
    pc,                       \* position in present / absent
    op,                       \* state function of this session: none, present, absent
    runs,                     \* number of calls of the state function so far
    ret,                      \* present's / absent's ret
    steps,                    \* the sub-steps executed in this call, with their _ret
    calls,                    \* the boto_iam calls made in this call, in order
    iam0,                     \* the remote account when this call started
    last,                     \* result of the previous call ("none" before it)
    fold                      \* arguments and loop position of the policy merge

vars == <<iam, opts_test, args, _policies, pc, op, runs, ret, steps, calls,
          iam0, last, fold>>

\* ---------------------------------------------------------------- bounds
MaxRuns == 2
MaxPillars == 2

\* ------------------------------------------------------------- universes
None == "None"
RoleName == "myrole"
PolicyNames == <<"a", "b">>
PolicyNameSet == {PolicyNames[i] : i \in 1..Len(PolicyNames)}
Docs == {"X", "Y"}
DefaultTrust == "ec2"
TrustDocs == {DefaultTrust, "X"}
PillarKeys == {"A", "B"}

Dicts == [PolicyNameSet -> Docs \cup {None}]
EmptyDict == [n \in PolicyNameSet |-> None]
Keys(d) == {n \in PolicyNameSet : d[n] # None}

\* every order in which the entries of a python dict may be iterated
Orders(S) ==
    {s \in [1..Cardinality(S) -> S] : \A i, j \in 1..Cardinality(S) : i # j => s[i] # s[j]}

\* ------------------------------------------------- salt.utils.dictupdate
NoKeys == [k \in {} |-> None]
NoChanges == [old |-> NoKeys, new |-> NoKeys]

Overlay(dest, upd) ==
    [k \in DOMAIN dest \cup DOMAIN upd |-> IF k \in DOMAIN upd THEN upd[k] ELSE dest[k]]

update(dest, upd) ==
    [old |-> Overlay(dest.old, upd.old), new |-> Overlay(dest.new, upd.new)]

Changes(key, old, new) == [old |-> (key :> old), new |-> (key :> new)]

\* ------------------------------------------------------ pillar and merge
pillar_get(key) ==
    IF key = "A" THEN [n \in PolicyNameSet |-> IF n = "a" THEN "X" ELSE None]
    ELSE [n \in PolicyNameSet |-> "Y"]

\* faulty variant: an entry already in d is kept
dict_update_keeping(d, other) ==
    [n \in PolicyNameSet |-> IF d[n] # None THEN d[n] ELSE other[n]]

\* dict.update: entries of other replace or extend those of d
dict_update(d, other) ==
    [n \in PolicyNameSet |-> IF other[n] # None THEN other[n] ELSE d[n]]

RECURSIVE merge_pillars(_, _)
merge_pillars(acc, pillars) ==
    IF pillars = <<>> THEN acc
    ELSE merge_pillars(dict_update(acc, pillar_get(Head(pillars))), Tail(pillars))

merge_policies(policies, policies_from_pillars) ==
    dict_update(merge_pillars(EmptyDict, policies_from_pillars), policies)

\* -------------------------------------------------- boto_iam (the provider)
Call(fn, arg, ok) == [fn |-> fn, arg |-> arg, ok |-> ok]
Read(fn, arg) == Call(fn, arg, TRUE)

MutatingFns == {"create_role", "update_assume_role_policy", "delete_role",
                "create_instance_profile", "delete_instance_profile",
                "associate_profile_to_role", "disassociate_profile_from_role",
                "create_role_policy", "delete_role_policy"}

boto_iam_build_policy == DefaultTrust

\* the role's assume_role_policy_document, None when there is no role
boto_iam_describe_role(acct) == acct.assume_role_policy_document

boto_iam_role_exists(acct) == acct.role
boto_iam_instance_profile_exists(acct) == acct.instance_profile
boto_iam_profile_associated(acct) == acct.associated
boto_iam_get_role_policy(acct, policy_name) == acct.role_policies[policy_name]
boto_iam_list_role_policies(acct) ==
    SelectSeq(PolicyNames, LAMBDA n : acct.role_policies[n] # None)

boto_iam_create_role(acct, document) ==
    [acct EXCEPT !.role = TRUE,
                 !.assume_role_policy_document =
                     IF document = None THEN boto_iam_build_policy ELSE document]
boto_iam_update_assume_role_policy(acct, document) ==
    [acct EXCEPT !.assume_role_policy_document = document]
boto_iam_delete_role(acct) ==
    [acct EXCEPT !.role = FALSE, !.assume_role_policy_document = None]
boto_iam_create_instance_profile(acct) == [acct EXCEPT !.instance_profile = TRUE]
boto_iam_delete_instance_profile(acct) == [acct EXCEPT !.instance_profile = FALSE]
boto_iam_associate_profile_to_role(acct) == [acct EXCEPT !.associated = TRUE]
boto_iam_disassociate_profile_from_role(acct) == [acct EXCEPT !.associated = FALSE]
boto_iam_create_role_policy(acct, policy_name, policy) ==
    [acct EXCEPT !.role_policies[policy_name] = policy]
boto_iam_delete_role_policy(acct, policy_name) ==
    [acct EXCEPT !.role_policies[policy_name] = None]

\* the states the account can be in: policies and an association need the role
Accounts ==
    {a \in [role : BOOLEAN,
            assume_role_policy_document : TrustDocs \cup {None},
            instance_profile : BOOLEAN,
            associated : BOOLEAN,
            role_policies : Dicts] :
        /\ a.role <=> a.assume_role_policy_document # None
        /\ a.associated => a.role /\ a.instance_profile
        /\ ~a.role => a.role_policies = EmptyDict}

\* ------------------------------------------------------------ sub-steps
\* A sub-step returns the set of its possible outcomes, one for every way
\* the provider's mutating calls can succeed or fail:
\*   ret (result, comment, changes), the account afterwards, the calls made.
Msg(text, names) == [text |-> text, names |-> names]
Ret(result, comment, changes) ==
    [result |-> result, comment |-> comment, changes |-> changes]
Outcome(r, acct, made) == [ret |-> r, iam |-> acct, calls |-> made]

\* the two ways a mutating call can end: ok with its effect, or failed without
Attempt(fn, arg, acct, effect, before) ==
    {[ok |-> TRUE, iam |-> effect, calls |-> Append(before, Call(fn, arg, TRUE))],
     [ok |-> FALSE, iam |-> acct, calls |-> Append(before, Call(fn, arg, FALSE))]}

\* faulty variant: only the default trust policy is compared
update_needed_for_default(role, document) ==
    document = None /\ role # boto_iam_build_policy

\* faulty variant: the role's document is compared with the argument even when
\* the argument is None
update_needed_for_argument(role, document) == role # document

update_needed(role, document) ==
    IF document = None THEN role # boto_iam_build_policy ELSE role # document

_role_present(acct, document, test) ==
    LET role == boto_iam_describe_role(acct)
        c0 == <<Read("describe_role", None)>>
    IN  IF role = None
        THEN IF test
             THEN {Outcome(Ret("None", Msg("IAM role is set to be created.", <<>>),
                               NoChanges), acct, c0)}
             ELSE {IF a.ok
                   THEN Outcome(Ret("True", Msg("IAM role created.", <<>>),
                                    Changes("role", None, RoleName)), a.iam, a.calls)
                   ELSE Outcome(Ret("False", Msg("Failed to create IAM role.", <<>>),
                                    NoChanges), a.iam, a.calls)
                   : a \in Attempt("create_role", None, acct,
                                   boto_iam_create_role(acct, document), c0)}
        ELSE LET c1 == IF document = None
                       THEN Append(c0, Read("build_policy", None)) ELSE c0
                 _policy_document ==
                     IF document = None THEN boto_iam_build_policy ELSE document
             IN  IF ~update_needed(role, document)
                 THEN {Outcome(Ret("True", Msg("role present.", <<>>), NoChanges),
                               acct, c1)}
                 ELSE IF test
                 THEN {Outcome(Ret("None",
                           Msg("role present. Assume role policy document to be updated.",
                               <<>>), NoChanges), acct, c1)}
                 ELSE {IF a.ok
                       THEN Outcome(Ret("True",
                                Msg("role present. Assume role policy document updated.",
                                    <<>>),
                                [old |-> ("policy_document" :> document),
                                 new |-> ("policy_document" :> _policy_document)]),
                                a.iam, a.calls)
                       ELSE Outcome(Ret("False",
                                Msg("role present. Failed to update assume role policy.",
                                    <<>>), NoChanges), a.iam, a.calls)
                       : a \in Attempt("update_assume_role_policy", None, acct,
                               boto_iam_update_assume_role_policy(acct, _policy_document),
                               c1)}

_instance_profile_present(acct, test) ==
    LET exists == boto_iam_instance_profile_exists(acct)
        c0 == <<Read("instance_profile_exists", None)>>
    IN  IF ~exists
        THEN IF test
             THEN {Outcome(Ret("None", Msg("Instance profile is set to be created.", <<>>),
                               NoChanges), acct, c0)}
             ELSE {IF a.ok
                   THEN Outcome(Ret("True", Msg("Instance profile created.", <<>>),
                                    Changes("instance_profile", None, RoleName)),
                                a.iam, a.calls)
                   ELSE Outcome(Ret("False",
                                    Msg("Failed to create instance profile.", <<>>),
                                    NoChanges), a.iam, a.calls)
                   : a \in Attempt("create_instance_profile", None, acct,
                                   boto_iam_create_instance_profile(acct), c0)}
        ELSE {Outcome(Ret("True", Msg("", <<>>), NoChanges), acct, c0)}

\* faulty variant: the dry-run of a missing association is not pending
_instance_profile_associated_silent(acct, test) ==
    LET is_associated == boto_iam_profile_associated(acct)
        c0 == <<Read("profile_associated", None)>>
    IN  IF ~is_associated
        THEN IF test
             THEN {Outcome(Ret("True",
                               Msg("Instance profile is set to be associated.", <<>>),
                               NoChanges), acct, c0)}
             ELSE {IF a.ok
                   THEN Outcome(Ret("True", Msg("Instance profile associated.", <<>>),
                                    Changes("profile_associated", None, "True")),
                                a.iam, a.calls)
                   ELSE Outcome(Ret("False",
                                    Msg("Failed to associate instance profile with role.",
                                        <<>>), NoChanges), a.iam, a.calls)
                   : a \in Attempt("associate_profile_to_role", None, acct,
                                   boto_iam_associate_profile_to_role(acct), c0)}
        ELSE {Outcome(Ret("True", Msg("", <<>>), NoChanges), acct, c0)}

_instance_profile_associated(acct, test) ==
    LET is_associated == boto_iam_profile_associated(acct)
        c0 == <<Read("profile_associated", None)>>
    IN  IF ~is_associated
        THEN IF test
             THEN {Outcome(Ret("None",
                               Msg("Instance profile is set to be associated.", <<>>),
                               NoChanges), acct, c0)}
             ELSE {IF a.ok
                   THEN Outcome(Ret("True", Msg("Instance profile associated.", <<>>),
                                    Changes("profile_associated", None, "True")),
                                a.iam, a.calls)
                   ELSE Outcome(Ret("False",
                                    Msg("Failed to associate instance profile with role.",
                                        <<>>), NoChanges), a.iam, a.calls)
                   : a \in Attempt("associate_profile_to_role", None, acct,
                                   boto_iam_associate_profile_to_role(acct), c0)}
        ELSE {Outcome(Ret("True", Msg("", <<>>), NoChanges), acct, c0)}

\* faulty variant: every desired policy is written again
policies_to_create_always(acct, policies) == Keys(policies)

\* lines 326-331: the desired policies whose remote document differs
policies_to_create(acct, policies) ==
    {n \in Keys(policies) : boto_iam_get_role_policy(acct, n) # policies[n]}

\* faulty variant: delete_policies is not looked at
policies_to_delete_ungated(_list, policies, delete_policies) ==
    SelectSeq(_list, LAMBDA n : n \notin Keys(policies))

\* lines 334-336: the listed policies that are not desired, if they may be deleted
policies_to_delete(_list, policies, delete_policies) ==
    SelectSeq(_list, LAMBDA n : delete_policies /\ n \notin Keys(policies))

Halted(failed, acct, made) == [failed |-> failed, iam |-> acct, calls |-> made]

\* faulty variant: the loop goes on after a failed upsert
RECURSIVE create_loop_through(_, _, _, _)
create_loop_through(todo, policies, acct, made) ==
    IF todo = <<>> THEN {Halted(None, acct, made)}
    ELSE UNION {create_loop_through(Tail(todo), policies, a.iam, a.calls)
                : a \in Attempt("create_role_policy", Head(todo), acct,
                        boto_iam_create_role_policy(acct, Head(todo),
                                                    policies[Head(todo)]), made)}

\* lines 346-361: upsert every policy of todo, stopping at the first failure
RECURSIVE create_loop(_, _, _, _)
create_loop(todo, policies, acct, made) ==
    IF todo = <<>> THEN {Halted(None, acct, made)}
    ELSE UNION {IF a.ok THEN create_loop(Tail(todo), policies, a.iam, a.calls)
                ELSE {Halted(Head(todo), a.iam, a.calls)}
                : a \in Attempt("create_role_policy", Head(todo), acct,
                        boto_iam_create_role_policy(acct, Head(todo),
                                                    policies[Head(todo)]), made)}

\* faulty variant: the loop goes on after a failed delete
RECURSIVE delete_loop_through(_, _, _)
delete_loop_through(todo, acct, made) ==
    IF todo = <<>> THEN {Halted(None, acct, made)}
    ELSE UNION {delete_loop_through(Tail(todo), a.iam, a.calls)
                : a \in Attempt("delete_role_policy", Head(todo), acct,
                        boto_iam_delete_role_policy(acct, Head(todo)), made)}

\* lines 362-376 and 521-535: delete every policy of todo, stopping at the first failure
RECURSIVE delete_loop(_, _, _)
delete_loop(todo, acct, made) ==
    IF todo = <<>> THEN {Halted(None, acct, made)}
    ELSE UNION {IF a.ok THEN delete_loop(Tail(todo), a.iam, a.calls)
                ELSE {Halted(Head(todo), a.iam, a.calls)}
                : a \in Attempt("delete_role_policy", Head(todo), acct,
                        boto_iam_delete_role_policy(acct, Head(todo)), made)}

\* the return after a failed call: the policies are listed again for changes.new
policies_failed(text, h, _list) ==
    Outcome(Ret("False", Msg(text, <<h.failed>>),
                [old |-> ("policies" :> _list),
                 new |-> ("policies" :> boto_iam_list_role_policies(h.iam))]),
            h.iam, Append(h.calls, Read("list_role_policies", None)))

\* faulty variant: the policies are not listed again
policies_done_stale(text, h, _list) ==
    Outcome(Ret("True", Msg(text, _list),
                [old |-> ("policies" :> _list), new |-> ("policies" :> _list)]),
            h.iam, h.calls)

\* the return after every call succeeded: the policies are listed again
policies_done(text, h, _list) ==
    LET after == boto_iam_list_role_policies(h.iam)
    IN  Outcome(Ret("True", Msg(text, after),
                    [old |-> ("policies" :> _list), new |-> ("policies" :> after)]),
                h.iam, Append(h.calls, Read("list_role_policies", None)))

\* faulty variant: the delete loop runs before the create loop
policies_present_in_deleting_first(order, acct, policies, delete_policies, test) ==
    LET reads == [i \in 1..Len(order) |-> Read("get_role_policy", order[i])]
        to_create == SelectSeq(order, LAMBDA n : n \in policies_to_create(acct, policies))
        _list == boto_iam_list_role_policies(acct)
        to_delete == policies_to_delete(_list, policies, delete_policies)
        c0 == Append(reads, Read("list_role_policies", None))
    IN  IF to_create = <<>> /\ to_delete = <<>>
        THEN {Outcome(Ret("True", Msg("", <<>>), NoChanges), acct, c0)}
        ELSE IF test
        THEN {Outcome(Ret("None", Msg("policies to be modified on role.",
                                      to_delete \o to_create), NoChanges), acct, c0)}
        ELSE UNION {IF d.failed # None
                    THEN {policies_failed("Failed to remove policy from role", d, _list)}
                    ELSE {IF c.failed # None
                          THEN policies_failed("Failed to add policy to role", c, _list)
                          ELSE policies_done("policies modified on role.", c, _list)
                          : c \in create_loop(to_create, policies, d.iam, d.calls)}
                    : d \in delete_loop(to_delete, acct, c0)}

\* _policies_present with the dict iterated in the given order
policies_present_in(order, acct, policies, delete_policies, test) ==
    LET reads == [i \in 1..Len(order) |-> Read("get_role_policy", order[i])]
        to_create == SelectSeq(order, LAMBDA n : n \in policies_to_create(acct, policies))
        _list == boto_iam_list_role_policies(acct)
        to_delete == policies_to_delete(_list, policies, delete_policies)
        c0 == Append(reads, Read("list_role_policies", None))
    IN  IF to_create = <<>> /\ to_delete = <<>>
        THEN {Outcome(Ret("True", Msg("", <<>>), NoChanges), acct, c0)}
        ELSE IF test
        THEN {Outcome(Ret("None", Msg("policies to be modified on role.",
                                      to_delete \o to_create), NoChanges), acct, c0)}
        ELSE UNION {IF c.failed # None
                    THEN {policies_failed("Failed to add policy to role", c, _list)}
                    ELSE {IF d.failed # None
                          THEN policies_failed("Failed to remove policy from role", d, _list)
                          ELSE policies_done("policies modified on role.", d, _list)
                          : d \in delete_loop(to_delete, c.iam, c.calls)}
                    : c \in create_loop(to_create, policies, acct, c0)}

_policies_present(acct, policies, delete_policies, test) ==
    UNION {policies_present_in(order, acct, policies, delete_policies, test)
           : order \in Orders(Keys(policies))}

\* faulty variant: __opts__['test'] is not looked at
_policies_absent_untested(acct, test) ==
    LET _list == boto_iam_list_role_policies(acct)
        c0 == <<Read("list_role_policies", None)>>
    IN  IF _list = <<>>
        THEN {Outcome(Ret("True", Msg("No policies in role.", <<>>), NoChanges), acct, c0)}
        ELSE {IF d.failed # None
              THEN policies_failed("Failed to add policy to role", d, _list)
              ELSE policies_done("policies removed from role.", d, _list)
              : d \in delete_loop(_list, acct, c0)}

\* faulty variant: after a failed delete the first listing is reported as new
_policies_absent_stale(acct, test) ==
    LET _list == boto_iam_list_role_policies(acct)
        c0 == <<Read("list_role_policies", None)>>
    IN  IF _list = <<>>
        THEN {Outcome(Ret("True", Msg("No policies in role.", <<>>), NoChanges), acct, c0)}
        ELSE IF test
        THEN {Outcome(Ret("None", Msg("policies to be removed from role.", _list),
                          NoChanges), acct, c0)}
        ELSE {IF d.failed # None
              THEN Outcome(Ret("False", Msg("Failed to add policy to role", <<d.failed>>),
                               [old |-> ("policies" :> _list),
                                new |-> ("policies" :> _list)]),
                           d.iam, d.calls)
              ELSE policies_done("policies removed from role.", d, _list)
              : d \in delete_loop(_list, acct, c0)}

_policies_absent(acct, test) ==
    LET _list == boto_iam_list_role_policies(acct)
        c0 == <<Read("list_role_policies", None)>>
    IN  IF _list = <<>>
        THEN {Outcome(Ret("True", Msg("No policies in role.", <<>>), NoChanges), acct, c0)}
        ELSE IF test
        THEN {Outcome(Ret("None", Msg("policies to be removed from role.", _list),
                          NoChanges), acct, c0)}
        ELSE {IF d.failed # None
              THEN policies_failed("Failed to add policy to role", d, _list)
              ELSE policies_done("policies removed from role.", d, _list)
              : d \in delete_loop(_list, acct, c0)}

_instance_profile_disassociated(acct, test) ==
    LET is_associated == boto_iam_profile_associated(acct)
        c0 == <<Read("profile_associated", None)>>
    IN  IF is_associated
        THEN IF test
             THEN {Outcome(Ret("None",
                               Msg("Instance profile is set to be disassociated.", <<>>),
                               NoChanges), acct, c0)}
             ELSE {IF a.ok
                   THEN Outcome(Ret("True", Msg("Instance profile disassociated.", <<>>),
                                    Changes("profile_associated", "True", "False")),
                                a.iam, a.calls)
                   ELSE Outcome(Ret("False",
                                    Msg("Failed to disassociate instance profile from role.",
                                        <<>>), NoChanges), a.iam, a.calls)
                   : a \in Attempt("disassociate_profile_from_role", None, acct,
                                   boto_iam_disassociate_profile_from_role(acct), c0)}
        ELSE {Outcome(Ret("True", Msg("", <<>>), NoChanges), acct, c0)}

_instance_profile_absent(acct, test) ==
    LET exists == boto_iam_instance_profile_exists(acct)
        c0 == <<Read("instance_profile_exists", None)>>
    IN  IF exists
        THEN IF test
             THEN {Outcome(Ret("None", Msg("Instance profile is set to be removed.", <<>>),
                               NoChanges), acct, c0)}
             ELSE {IF a.ok
                   THEN Outcome(Ret("True", Msg("Instance profile removed.", <<>>),
                                    Changes("instance_profile", RoleName, None)),
                                a.iam, a.calls)
                   ELSE Outcome(Ret("False",
                                    Msg("Failed to delete instance profile.", <<>>),
                                    NoChanges), a.iam, a.calls)
                   : a \in Attempt("delete_instance_profile", None, acct,
                                   boto_iam_delete_instance_profile(acct), c0)}
        ELSE {Outcome(Ret("True", Msg("instance profile does not exist.", <<>>),
                          NoChanges), acct, c0)}

\* faulty variant: __opts__['test'] is looked at before the role's existence
_role_absent_test_first(acct, test) ==
    LET exists == boto_iam_role_exists(acct)
        c0 == <<Read("role_exists", None)>>
    IN  IF test
        THEN {Outcome(Ret("None", Msg("IAM role is set to be removed.", <<>>),
                          NoChanges), acct, c0)}
        ELSE IF exists
        THEN {IF a.ok
              THEN Outcome(Ret("True", Msg("IAM role removed.", <<>>),
                               Changes("role", RoleName, None)), a.iam, a.calls)
              ELSE Outcome(Ret("False", Msg("Failed to delete iam role.", <<>>),
                               NoChanges), a.iam, a.calls)
              : a \in Attempt("delete_role", None, acct,
                              boto_iam_delete_role(acct), c0)}
        ELSE {Outcome(Ret("True", Msg("role does not exist.", <<>>), NoChanges),
                      acct, c0)}

\* faulty variant: a failed delete_role is reported as a removal
_role_absent_lenient(acct, test) ==
    LET exists == boto_iam_role_exists(acct)
        c0 == <<Read("role_exists", None)>>
    IN  IF exists
        THEN IF test
             THEN {Outcome(Ret("None", Msg("IAM role is set to be removed.", <<>>),
                               NoChanges), acct, c0)}
             ELSE {Outcome(Ret("True", Msg("IAM role removed.", <<>>),
                               Changes("role", RoleName, None)), a.iam, a.calls)
                   : a \in Attempt("delete_role", None, acct,
                                   boto_iam_delete_role(acct), c0)}
        ELSE {Outcome(Ret("True", Msg("role does not exist.", <<>>), NoChanges),
                      acct, c0)}

_role_absent(acct, test) ==
    LET exists == boto_iam_role_exists(acct)
        c0 == <<Read("role_exists", None)>>
    IN  IF exists
        THEN IF test
             THEN {Outcome(Ret("None", Msg("IAM role is set to be removed.", <<>>),
                               NoChanges), acct, c0)}
             ELSE {IF a.ok
                   THEN Outcome(Ret("True", Msg("IAM role removed.", <<>>),
                                    Changes("role", RoleName, None)), a.iam, a.calls)
                   ELSE Outcome(Ret("False", Msg("Failed to delete iam role.", <<>>),
                                    NoChanges), a.iam, a.calls)
                   : a \in Attempt("delete_role", None, acct,
                                   boto_iam_delete_role(acct), c0)}
        ELSE {Outcome(Ret("True", Msg("role does not exist.", <<>>), NoChanges),
                      acct, c0)}

\* ---------------------------------------------------------- present, absent
PresentArgs ==
    [policy_document : TrustDocs \cup {None},
     create_instance_profile : BOOLEAN,
     delete_policies : BOOLEAN]
DefaultArgs ==
    [policy_document |-> None, create_instance_profile |-> TRUE, delete_policies |-> TRUE]
PillarLists == UNION {[1..k -> PillarKeys] : k \in 0..MaxPillars}

\* lines 155-163 for every policies and policies_from_pillars
MergedPolicies ==
    {merge_policies(policies, policies_from_pillars) :
        policies \in Dicts, policies_from_pillars \in PillarLists}

Ret0 == [result |-> "True", comment |-> <<>>, changes |-> NoChanges]
FoldIdle == [policies |-> EmptyDict, policies_from_pillars |-> <<>>, i |-> 0]

\* faulty variant: the latest sub-step's result always replaces the result
merge_result_latest(result, _result) == _result

\* if not _ret['result']: ret['result'] = _ret['result']
merge_result(result, _result) == IF _result # "True" THEN _result ELSE result

\* faulty variant: present and absent never return early
short_circuit_never(_result) == FALSE

\* faulty variant: a pending sub-step ends the call as a failed one does
short_circuit_unless_true(_result) == _result # "True"

\* if ret['result'] is False: return ret
short_circuit(_result) == _result = "False"

\* faulty variant: the sub-step's changes replace the ones merged so far
merged_replacing(r, _ret) ==
    [result |-> merge_result(r.result, _ret.result),
     comment |-> Append(r.comment, _ret.comment),
     changes |-> _ret.changes]

merged(r, _ret) ==
    [result |-> merge_result(r.result, _ret.result),
     comment |-> Append(r.comment, _ret.comment),
     changes |-> update(r.changes, _ret.changes)]

\* what a sub-step did: its _ret, its calls, the account before and after it
Step(step, o, before) ==
    [step |-> step, ret |-> o.ret, calls |-> o.calls, before |-> before, after |-> o.iam]

\* the first sub-step of a call: ret is fresh
Begin(name, step, o, next) ==
    /\ runs < MaxRuns
    /\ pc = "idle"
    /\ op \in {"none", name}
    /\ op' = name
    /\ runs' = runs + 1
    /\ last' = IF runs = 0 THEN "none" ELSE ret.result
    /\ iam0' = iam
    /\ iam' = o.iam
    /\ ret' = merged(Ret0, o.ret)
    /\ steps' = <<Step(step, o, iam)>>
    /\ calls' = o.calls
    /\ pc' = IF short_circuit(o.ret.result) THEN "idle" ELSE next
    /\ UNCHANGED <<opts_test, fold>>

\* a later sub-step: its _ret is merged into ret
Continue(step, o, next) ==
    /\ pc = step
    /\ iam' = o.iam
    /\ ret' = merged(ret, o.ret)
    /\ steps' = Append(steps, Step(step, o, iam))
    /\ calls' = calls \o o.calls
    /\ pc' = next
    /\ UNCHANGED <<opts_test, args, _policies, op, runs, iam0, last, fold>>

\* faulty variant: the instance-profile steps run whatever the argument says
present_role_with_profile ==
    \E a \in PresentArgs, merged_policies \in MergedPolicies :
        /\ op = "present" => a = args /\ merged_policies = _policies
        /\ args' = a
        /\ _policies' = merged_policies
        /\ \E o \in _role_present(iam, a.policy_document, opts_test) :
               Begin("present", "_role_present", o, "_instance_profile_present")

\* present, lines 152-169. Successive calls of present apply the same state
\* declaration: the same arguments and the same merged policies.
present_role ==
    \E a \in PresentArgs, merged_policies \in MergedPolicies :
        /\ op = "present" => a = args /\ merged_policies = _policies
        /\ args' = a
        /\ _policies' = merged_policies
        /\ \E o \in _role_present(iam, a.policy_document, opts_test) :
               Begin("present", "_role_present", o,
                     IF a.create_instance_profile
                     THEN "_instance_profile_present" ELSE "_policies_present")

\* faulty variant: the association step is left out
present_instance_profile_alone ==
    \E o \in _instance_profile_present(iam, opts_test) :
        Continue("_instance_profile_present", o,
                 IF short_circuit(o.ret.result) THEN "idle" ELSE "_policies_present")

\* present, lines 170-177
present_instance_profile ==
    \E o \in _instance_profile_present(iam, opts_test) :
        Continue("_instance_profile_present", o,
                 IF short_circuit(o.ret.result)
                 THEN "idle" ELSE "_instance_profile_associated")

\* present, lines 178-184
present_associated ==
    \E o \in _instance_profile_associated(iam, opts_test) :
        Continue("_instance_profile_associated", o,
                 IF short_circuit(o.ret.result) THEN "idle" ELSE "_policies_present")

\* present, lines 185-191
present_policies ==
    \E o \in _policies_present(iam, _policies, args.delete_policies, opts_test) :
        Continue("_policies_present", o, "idle")

\* absent, lines 410-417
absent_policies ==
    /\ UNCHANGED <<args, _policies>>
    /\ \E o \in _policies_absent(iam, opts_test) :
           Begin("absent", "_policies_absent", o, "_instance_profile_disassociated")

\* absent, lines 418-424
absent_disassociated ==
    \E o \in _instance_profile_disassociated(iam, opts_test) :
        Continue("_instance_profile_disassociated", o,
                 IF short_circuit(o.ret.result)
                 THEN "idle" ELSE "_instance_profile_absent")

\* absent, lines 425-431
absent_instance_profile ==
    \E o \in _instance_profile_absent(iam, opts_test) :
        Continue("_instance_profile_absent", o,
                 IF short_circuit(o.ret.result) THEN "idle" ELSE "_role_absent")

\* absent, lines 432-437
absent_role ==
    \E o \in _role_absent(iam, opts_test) :
        Continue("_role_absent", o, "idle")

Init ==
    /\ iam \in Accounts
    /\ opts_test \in BOOLEAN
    /\ args = DefaultArgs
    /\ _policies = EmptyDict
    /\ pc = "idle"
    /\ op = "none"
    /\ runs = 0
    /\ ret = Ret0
    /\ steps = <<>>
    /\ calls = <<>>
    /\ iam0 = iam
    /\ last = "none"
    /\ fold = FoldIdle

Next ==
    \/ present_role
    \/ present_instance_profile
    \/ present_associated
    \/ present_policies
    \/ absent_policies
    \/ absent_disassociated
    \/ absent_instance_profile
    \/ absent_role

Spec == Init /\ [][Next]_vars

\* ------------------------------------------------- the policy merge alone
\* present, lines 155-163, one loop iteration at a time
FoldInit ==
    /\ fold \in [policies : Dicts, policies_from_pillars : PillarLists, i : {1}]
    /\ _policies = EmptyDict
    /\ pc = "fold_pillars"
    /\ iam \in {a \in Accounts : ~a.role /\ ~a.instance_profile}
    /\ opts_test = FALSE
    /\ args = DefaultArgs
    /\ op = "none"
    /\ runs = 0
    /\ ret = Ret0
    /\ steps = <<>>
    /\ calls = <<>>
    /\ iam0 = iam
    /\ last = "none"

\* lines 160-162: _policies.update(__salt__['pillar.get'](policy))
fold_pillar ==
    /\ pc = "fold_pillars"
    /\ fold.i <= Len(fold.policies_from_pillars)
    /\ _policies' = dict_update(_policies, pillar_get(fold.policies_from_pillars[fold.i]))
    /\ fold' = [fold EXCEPT !.i = @ + 1]
    /\ UNCHANGED <<iam, opts_test, args, pc, op, runs, ret, steps, calls, iam0, last>>

\* line 163: _policies.update(policies)
fold_policies ==
    /\ pc = "fold_pillars"
    /\ fold.i > Len(fold.policies_from_pillars)
    /\ _policies' = dict_update(_policies, fold.policies)
    /\ pc' = "fold_done"
    /\ UNCHANGED <<iam, opts_test, args, fold, op, runs, ret, steps, calls, iam0, last>>

FoldNext == fold_pillar \/ fold_policies

SpecFold == FoldInit /\ [][FoldNext]_vars

\* ------------------------------------------------------------- properties
NoMutation(made) == \A i \in DOMAIN made : made[i].fn \notin MutatingFns
Returned == pc = "idle" /\ runs > 0
Fns(made) == {made[i].fn : i \in DOMAIN made}

\* the trust policy present asks for: the explicit document, else the default
EffectiveDocument == 
    IF args.policy_document = None THEN boto_iam_build_policy ELSE args.policy_document

\* C1: in dry-run neither present nor absent makes a mutating boto_iam call,
\* at any point of the call, and the remote account stays as it was when the
\* call started.
C1_DryRunNeverMutates ==
    opts_test => NoMutation(calls) /\ iam = iam0

\* a dry-run present that found every sub-resource in need of a change
C1_Witness ==
    /\ opts_test /\ Returned /\ op = "present"
    /\ Len(steps) = 4
    /\ \A i \in 1..4 : steps[i].ret.result = "None"

\* C2: a live present that follows a live present of the same declaration
\* which returned True makes no mutating call, has empty changes and returns
\* True.
C2_PresentIdempotent ==
    (op = "present" /\ runs >= 2 /\ ~opts_test /\ last = "True") =>
        /\ NoMutation(calls)
        /\ ret.changes = NoChanges
        /\ ret.result = "True"

\* the second present has returned, for a declaration with policies, an
\* instance profile and an explicit trust policy
C2_Witness ==
    /\ op = "present" /\ runs = 2 /\ ~opts_test /\ last = "True" /\ pc = "idle"
    /\ Keys(_policies) = PolicyNameSet
    /\ args.create_instance_profile
    /\ args.policy_document # None
    /\ Len(steps) = 4

\* C3: when a live present returns True the account matches the
\* declaration: role, trust policy, instance profile and association when
\* asked for, every desired policy with its document, and no other policy
\* when delete_policies is set.
C3_PresentConverges ==
    (Returned /\ op = "present" /\ ~opts_test /\ ret.result = "True") =>
        /\ iam.role
        /\ iam.assume_role_policy_document = EffectiveDocument
        /\ args.create_instance_profile => iam.instance_profile /\ iam.associated
        /\ \A n \in Keys(_policies) : iam.role_policies[n] = _policies[n]
        /\ args.delete_policies =>
               \A n \in PolicyNameSet \ Keys(_policies) : iam.role_policies[n] = None

\* a live present returned True after changing the trust policy, creating
\* and associating the profile, replacing one policy and deleting another
C3_Witness ==
    /\ Returned /\ op = "present" /\ ~opts_test /\ ret.result = "True"
    /\ iam0.role /\ iam0.assume_role_policy_document # EffectiveDocument
    /\ ~iam0.instance_profile /\ args.create_instance_profile
    /\ args.delete_policies
    /\ \E n \in Keys(_policies) :
           iam0.role_policies[n] # None /\ iam0.role_policies[n] # _policies[n]
    /\ \E n \in PolicyNameSet \ Keys(_policies) : iam0.role_policies[n] # None

\* the sub-step of present a boto_iam function is called by
PresentRank(fn) ==
    IF fn \in {"describe_role", "build_policy", "create_role",
               "update_assume_role_policy"} THEN 1
    ELSE IF fn \in {"instance_profile_exists", "create_instance_profile"} THEN 2
    ELSE IF fn \in {"profile_associated", "associate_profile_to_role"} THEN 3
    ELSE 4

PresentStepRank(step) ==
    IF step = "_role_present" THEN 1
    ELSE IF step = "_instance_profile_present" THEN 2
    ELSE IF step = "_instance_profile_associated" THEN 3
    ELSE 4

\* C4: when the role, instance profile or association step of present
\* returns False, present has returned False right there: the failed call is
\* the last boto_iam call made, no call of a later step was made, and no
\* policy was upserted or deleted.
C4_PresentShortCircuits ==
    op = "present" =>
        \A i \in DOMAIN steps :
            (steps[i].ret.result = "False" /\ steps[i].step # "_policies_present") =>
                /\ i = Len(steps)
                /\ pc = "idle"
                /\ ret.result = "False"
                /\ ~calls[Len(calls)].ok
                /\ \A j \in DOMAIN calls :
                       PresentRank(calls[j].fn) <= PresentStepRank(steps[i].step)
                /\ Fns(calls) \cap {"create_role_policy", "delete_role_policy"} = {}

\* creating the instance profile failed although policies were to be changed
C4_Witness ==
    /\ op = "present" /\ Len(steps) = 2 /\ steps[2].ret.result = "False"
    /\ policies_to_create(iam, _policies) # {}
    /\ policies_to_delete(boto_iam_list_role_policies(iam), _policies,
                          args.delete_policies) # <<>>

\* the sub-steps a call runs when none fails
AllSteps ==
    IF op = "present"
    THEN IF args.create_instance_profile
         THEN <<"_role_present", "_instance_profile_present",
                "_instance_profile_associated", "_policies_present">>
         ELSE <<"_role_present", "_policies_present">>
    ELSE <<"_policies_absent", "_instance_profile_disassociated",
           "_instance_profile_absent", "_role_absent">>

\* the boto_iam read a sub-step starts with
FirstRead(step) ==
    IF step = "_role_present" THEN "describe_role"
    ELSE IF step \in {"_instance_profile_present", "_instance_profile_absent"}
    THEN "instance_profile_exists"
    ELSE IF step \in {"_instance_profile_associated", "_instance_profile_disassociated"}
    THEN "profile_associated"
    ELSE IF step = "_role_absent" THEN "role_exists"
    ELSE "list_role_policies"

\* C5: a dry-run call of present or absent runs every sub-step, whatever
\* sub-step returned None before: each issued its read, and each one's
\* comment and result are merged into the return.
C5_PendingDoesNotHalt ==
    (opts_test /\ Returned) =>
        /\ Len(steps) = Len(AllSteps)
        /\ \A i \in DOMAIN steps :
               /\ steps[i].step = AllSteps[i]
               /\ FirstRead(steps[i].step) \in Fns(steps[i].calls)
               /\ ret.comment[i] = steps[i].ret.comment
        /\ Len(ret.comment) = Len(steps)
        /\ (\E i \in DOMAIN steps : steps[i].ret.result = "None") => ret.result = "None"

\* the first sub-step was pending in dry-run and the call has returned
C5_Witness ==
    /\ opts_test /\ Returned
    /\ steps[1].ret.result = "None"
    /\ op = "absent"
    /\ steps[Len(steps)].ret.result = "None"

\* the result the sub-steps executed so far add up to
Aggregate(executed) ==
    IF \E i \in DOMAIN executed : executed[i].ret.result = "False" THEN "False"
    ELSE IF \E i \in DOMAIN executed : executed[i].ret.result = "None" THEN "None"
    ELSE "True"

\* C6: the result of present and of absent is False if a sub-step returned
\* False, else None if a sub-step returned None, else True: a later True
\* does not undo an earlier None.
C6_ResultAggregation ==
    runs > 0 => ret.result = Aggregate(steps)

\* an early sub-step returned None, the last one True, and the call returned
C6_Witness ==
    /\ Returned /\ Len(steps) = 4
    /\ steps[1].ret.result = "None"
    /\ steps[4].ret.result = "True"

\* the sub-step of absent a mutating boto_iam function is called by
AbsentRank(fn) ==
    IF fn = "delete_role_policy" THEN 1
    ELSE IF fn = "disassociate_profile_from_role" THEN 2
    ELSE IF fn = "delete_instance_profile" THEN 3
    ELSE 4

\* C7: a live absent makes its mutating calls in the order delete_role_policy
\* (all of them), disassociate_profile_from_role, delete_instance_profile,
\* delete_role, and after a failed one makes no further mutating call and
\* returns False.
C7_AbsentOrderAndHalt ==
    (op = "absent" /\ ~opts_test) =>
        /\ \A i, j \in DOMAIN calls :
               (i < j /\ calls[i].fn \in MutatingFns /\ calls[j].fn \in MutatingFns) =>
                   AbsentRank(calls[i].fn) <= AbsentRank(calls[j].fn)
        /\ \A i \in DOMAIN calls :
               ~calls[i].ok =>
                   /\ \A j \in DOMAIN calls : j > i => calls[j].fn \notin MutatingFns
                   /\ pc = "idle"
                   /\ ret.result = "False"
        /\ \A j \in DOMAIN calls :
               calls[j].fn = "delete_role" =>
                   boto_iam_list_role_policies(iam0) =
                       [i \in 1..Len(boto_iam_list_role_policies(iam0)) |->
                           SelectSeq(calls, LAMBDA c : c.fn = "delete_role_policy")[i].arg]

\* two policies were deleted and then the disassociation failed
C7_Witness ==
    /\ op = "absent" /\ ~opts_test /\ pc = "idle"
    /\ Len(SelectSeq(calls, LAMBDA c : c.fn = "delete_role_policy" /\ c.ok)) = 2
    /\ \E i \in DOMAIN calls :
           calls[i].fn = "disassociate_profile_from_role" /\ ~calls[i].ok

\* C8: with delete_policies false present never calls delete_role_policy
\* and every policy of the role whose name is not desired keeps its document.
C8_DeletionGating ==
    (op = "present" /\ ~args.delete_policies) =>
        /\ "delete_role_policy" \notin Fns(calls)
        /\ \A n \in PolicyNameSet \ Keys(_policies) :
               iam.role_policies[n] = iam0.role_policies[n]

\* a live present upserted a policy next to an undesired one it had to keep
C8_Witness ==
    /\ op = "present" /\ ~args.delete_policies /\ ~opts_test /\ Returned
    /\ \E i \in DOMAIN calls : calls[i].fn = "create_role_policy" /\ calls[i].ok
    /\ \E n \in PolicyNameSet \ Keys(_policies) : iam0.role_policies[n] # None

\* the document of name n in the last listed pillar that defines it
LastPillarDocument(n, pillars) ==
    LET defining == {i \in 1..Len(pillars) : pillar_get(pillars[i])[n] # None}
    IN  IF defining = {} THEN None
        ELSE pillar_get(pillars[CHOOSE i \in defining : \A j \in defining : j <= i])[n]

\* C9: the merged policies are, name by name, the explicit document if the
\* name is in policies, else the document of the last listed pillar that
\* defines the name; this is the set present passes to _policies_present.
C9_FoldOrder ==
    pc = "fold_done" =>
        /\ \A n \in PolicyNameSet :
               _policies[n] =
                   IF fold.policies[n] # None THEN fold.policies[n]
                   ELSE LastPillarDocument(n, fold.policies_from_pillars)
        /\ _policies = merge_policies(fold.policies, fold.policies_from_pillars)

\* both pillars define "a" differently and policies overrides "b"
C9_Witness ==
    /\ pc = "fold_done"
    /\ fold.policies_from_pillars = <<"B", "A">>
    /\ fold.policies["a"] = None /\ fold.policies["b"] = "X"
    /\ _policies["a"] = "X" /\ _policies["b"] = "X"

\* the policies of the account s.before after the successful calls made[1..k-1]
AfterCalls(s, k, n) ==
    IF \E j \in 1..(k-1) : s.calls[j] = Call("create_role_policy", n, TRUE)
    THEN _policies[n]
    ELSE IF \E j \in 1..(k-1) : s.calls[j] = Call("delete_role_policy", n, TRUE)
    THEN None
    ELSE s.before.role_policies[n]

\* C10: in a live _policies_present the first failed create_role_policy or
\* delete_role_policy ends the sub-step: only the policies are listed after
\* it, no delete follows a failed upsert, the result is False, old.policies
\* is the list read before the first mutation and new.policies the list read
\* after the failed call, which shows the calls that succeeded before it.
C10_PoliciesFailFast ==
    \A i \in DOMAIN steps :
        LET s == steps[i] IN
        s.step = "_policies_present" =>
            \A k \in DOMAIN s.calls :
                ~s.calls[k].ok =>
                    /\ s.calls[k].fn \in {"create_role_policy", "delete_role_policy"}
                    /\ Len(s.calls) = k + 1
                    /\ s.calls[k + 1] = Read("list_role_policies", None)
                    /\ s.calls[k].fn = "create_role_policy" =>
                           "delete_role_policy" \notin Fns(s.calls)
                    /\ s.ret.result = "False"
                    /\ s.ret.changes.old["policies"] = boto_iam_list_role_policies(s.before)
                    /\ s.ret.changes.new["policies"] = boto_iam_list_role_policies(s.after)
                    /\ \A n \in PolicyNameSet :
                           s.after.role_policies[n] = AfterCalls(s, k, n)

\* the first upsert added a policy, the second failed
C10_Witness ==
    \E i \in DOMAIN steps :
        LET s == steps[i] IN
        /\ s.step = "_policies_present"
        /\ \E k \in DOMAIN s.calls :
               /\ k > 1
               /\ s.calls[k].fn = "create_role_policy" /\ ~s.calls[k].ok
               /\ s.calls[k - 1].fn = "create_role_policy" /\ s.calls[k - 1].ok
        /\ s.ret.changes.old["policies"] # s.ret.changes.new["policies"]


\* C11: changes is populated only by a call or sub-step that changed the
\* account (live) or previewed a change (dry-run).
C11_ChangesOnlyOnMutation ==
    /\ \A i \in DOMAIN steps :
           steps[i].ret.changes # NoChanges =>
               \/ steps[i].after # steps[i].before
               \/ opts_test /\ steps[i].ret.result = "None"
    /\ (runs > 0 /\ ret.changes # NoChanges) =>
           \/ iam # iam0
           \/ opts_test /\ ret.result = "None"


\* whether a live run of the sub-step would have to change the account acct
WouldMutate(step, acct) ==
    IF step = "_role_present"
    THEN ~acct.role \/ acct.assume_role_policy_document # EffectiveDocument
    ELSE IF step = "_instance_profile_present" THEN ~acct.instance_profile
    ELSE IF step = "_instance_profile_associated" THEN ~acct.associated
    ELSE IF step = "_policies_present"
    THEN \/ \E n \in Keys(_policies) : acct.role_policies[n] # _policies[n]
         \/ /\ args.delete_policies
            /\ \E n \in PolicyNameSet \ Keys(_policies) : acct.role_policies[n] # None
    ELSE IF step = "_policies_absent"
    THEN \E n \in PolicyNameSet : acct.role_policies[n] # None
    ELSE IF step = "_instance_profile_disassociated" THEN acct.associated
    ELSE IF step = "_instance_profile_absent" THEN acct.instance_profile
    ELSE acct.role

\* C12: a sub-step returns None only in dry-run and only when a live run
\* would have to change its sub-resource; present and absent return None
\* only in dry-run with such a sub-step; a live result is True or False.
C12_PendingOnlyInDryRun ==
    /\ \A i \in DOMAIN steps :
           steps[i].ret.result = "None" =>
               opts_test /\ WouldMutate(steps[i].step, steps[i].before)
    /\ (runs > 0 /\ ret.result = "None") =>
           opts_test /\ \E i \in DOMAIN steps : steps[i].ret.result = "None"
    /\ ~opts_test =>
           /\ ret.result \in {"True", "False"}
           /\ \A i \in DOMAIN steps : steps[i].ret.result \in {"True", "False"}

\* a dry-run absent found only the role left to remove
C12_Witness ==
    /\ opts_test /\ Returned /\ op = "absent" /\ ret.result = "None"
    /\ Len(steps) = 4
    /\ \A i \in 1..3 : steps[i].ret.result = "True"
    /\ steps[4].ret.result = "None"


\* the account acct already is what present's arguments describe
Matches(acct) ==
    /\ acct.role
    /\ acct.assume_role_policy_document = EffectiveDocument
    /\ args.create_instance_profile => acct.instance_profile /\ acct.associated
    /\ \A n \in PolicyNameSet : acct.role_policies[n] = _policies[n]

\* C13: when the account already matches the declaration, present, live or
\* dry-run, makes no mutating call, leaves the account alone and returns True
\* with empty changes.
C13_NoOpOnMatchingState ==
    (op = "present" /\ Matches(iam0)) =>
        /\ NoMutation(calls)
        /\ iam = iam0
        /\ ret.result = "True"
        /\ ret.changes = NoChanges
        /\ \A i \in DOMAIN steps : steps[i].ret.changes = NoChanges

\* a first present, on an account that matched a declaration with an
\* instance profile and policies, ran all four sub-steps
C13_Witness ==
    /\ op = "present" /\ Matches(iam0) /\ Returned /\ runs = 1
    /\ args.create_instance_profile
    /\ Keys(_policies) = PolicyNameSet
    /\ Len(steps) = 4


\* the mutating boto_iam functions called, in call order
MutatingSequence(made) ==
    LET m == SelectSeq(made, LAMBDA c : c.fn \in MutatingFns)
    IN  [i \in 1..Len(m) |-> m[i].fn]

\* C14: with no role, no instance profile, create_instance_profile set, no
\* desired policy and no failing call, a live present calls create_role,
\* create_instance_profile and associate_profile_to_role, in this order and
\* nothing else that mutates, and returns True with the role, the instance
\* profile and the association in changes.
C14_CreationFromScratch ==
    (/\ Returned /\ op = "present" /\ ~opts_test
     /\ ~iam0.role /\ ~iam0.instance_profile
     /\ args.create_instance_profile
     /\ _policies = EmptyDict
     /\ \A k \in DOMAIN calls : calls[k].ok) =>
        /\ MutatingSequence(calls) =
               <<"create_role", "create_instance_profile", "associate_profile_to_role">>
        /\ ret.result = "True"
        /\ ret.changes =
               [old |-> ("role" :> None) @@ ("instance_profile" :> None)
                            @@ ("profile_associated" :> None),
                new |-> ("role" :> RoleName) @@ ("instance_profile" :> RoleName)
                            @@ ("profile_associated" :> "True")]
        /\ steps[4].step = "_policies_present"
        /\ steps[4].ret = Ret("True", Msg("", <<>>), NoChanges)

\* such a present has returned and left role, profile and association behind
C14_Witness ==
    /\ Returned /\ op = "present" /\ ~opts_test
    /\ ~iam0.role /\ ~iam0.instance_profile
    /\ args.create_instance_profile
    /\ _policies = EmptyDict
    /\ \A k \in DOMAIN calls : calls[k].ok
    /\ iam.role /\ iam.instance_profile /\ iam.associated


\* the keys a sub-step recorded on one side of its changes are in m with
\* the values the sub-step gave them
Carried(m, recorded) ==
    \A k \in DOMAIN recorded : k \in DOMAIN m /\ m[k] = recorded[k]

\* C15: the changes present or absent return hold, under old and under new,
\* every key recorded by an executed sub-step with the value that sub-step
\* recorded, and no other key.
C15_ChangesAccumulate ==
    runs > 0 =>
        /\ \A i \in DOMAIN steps :
               /\ Carried(ret.changes.old, steps[i].ret.changes.old)
               /\ Carried(ret.changes.new, steps[i].ret.changes.new)
        /\ DOMAIN ret.changes.old =
               UNION {DOMAIN steps[i].ret.changes.old : i \in DOMAIN steps}
        /\ DOMAIN ret.changes.new =
               UNION {DOMAIN steps[i].ret.changes.new : i \in DOMAIN steps}

\* all four sub-steps of one live call recorded changes
C15_Witness ==
    /\ Returned /\ ~opts_test /\ Len(steps) = 4
    /\ \A i \in DOMAIN steps : steps[i].ret.changes # NoChanges
    /\ DOMAIN ret.changes.new \in
           {{"role", "instance_profile", "profile_associated", "policies"},
            {"policy_document", "instance_profile", "profile_associated", "policies"}}


\* the boto_iam functions of the instance profile and of its association
ProfileFns ==
    {"instance_profile_exists", "create_instance_profile",
     "profile_associated", "associate_profile_to_role"}

\* present without create_instance_profile leaves the instance profile alone
ProfileUntouched ==
    /\ Fns(calls) \cap ProfileFns = {}
    /\ iam.instance_profile = iam0.instance_profile
    /\ iam.associated = iam0.associated

\* C16 as stated: without create_instance_profile, present leaves the
\* instance profile alone and runs the role step and the policy step.
C16_OptOutAsStated ==
    (Returned /\ op = "present" /\ ~args.create_instance_profile) =>
        /\ ProfileUntouched
        /\ steps[1].step = "_role_present"
        /\ steps[Len(steps)].step = "_policies_present"

\* C16: without create_instance_profile, present makes no instance-profile
\* or association call, leaves the instance profile and its association as
\* they were, runs the role step and, unless the role step returned False,
\* the policy step right after it.
C16_OptOut ==
    (runs > 0 /\ op = "present" /\ ~args.create_instance_profile) =>
        /\ ProfileUntouched
        /\ steps[1].step = "_role_present"
        /\ Returned =>
               IF steps[1].ret.result = "False"
               THEN Len(steps) = 1
               ELSE Len(steps) = 2 /\ steps[2].step = "_policies_present"

\* a live present without create_instance_profile created the role and a
\* policy while the account has no instance profile
C16_Witness ==
    /\ Returned /\ op = "present" /\ ~args.create_instance_profile
    /\ ~opts_test
    /\ ~iam0.role /\ iam.role
    /\ ~iam.instance_profile
    /\ Len(steps) = 2
    /\ "create_role_policy" \in Fns(calls)


\* the sub-step made a successful call of fn
Succeeded(s, fn) == \E k \in DOMAIN s.calls : s.calls[k].fn = fn /\ s.calls[k].ok

\* C17: a role step whose update_assume_role_policy succeeded records, as
\* old policy_document, the document the role had before the update and, as
\* new policy_document, the document that was written.
C17_UpdateSnapshots ==
    \A i \in DOMAIN steps :
        (steps[i].step = "_role_present"
         /\ Succeeded(steps[i], "update_assume_role_policy")) =>
            /\ "policy_document" \in DOMAIN steps[i].ret.changes.old
            /\ steps[i].ret.changes.old["policy_document"] =
                   steps[i].before.assume_role_policy_document
            /\ "policy_document" \in DOMAIN steps[i].ret.changes.new
            /\ steps[i].ret.changes.new["policy_document"] =
                   steps[i].after.assume_role_policy_document


\* the place of a mutating boto_iam function in the order of present
MutationRank(fn) ==
    CASE fn \in {"create_role", "update_assume_role_policy"} -> 1
      [] fn = "create_instance_profile" -> 2
      [] fn = "associate_profile_to_role" -> 3
      [] fn = "create_role_policy" -> 4
      [] OTHER -> 5

\* C18: the mutating calls of a live present come in the order create_role
\* or update_assume_role_policy (one of them, once), create_instance_profile,
\* associate_profile_to_role, the create_role_policy calls, the
\* delete_role_policy calls.
C18_DependencyOrder ==
    (op = "present" /\ ~opts_test /\ runs > 0) =>
        LET m == MutatingSequence(calls)
        IN  /\ \A i, j \in DOMAIN m :
                   i < j => MutationRank(m[i]) <= MutationRank(m[j])
            /\ \A i, j \in DOMAIN m :
                   (MutationRank(m[i]) = 1 /\ MutationRank(m[j]) = 1) => i = j
            /\ \A i \in DOMAIN m :
                   MutationRank(m[i]) = 5 => m[i] = "delete_role_policy"

\* one live present issued a call of each of the five kinds
C18_Witness ==
    /\ Returned /\ op = "present" /\ ~opts_test
    /\ {"update_assume_role_policy", "create_instance_profile",
        "associate_profile_to_role", "create_role_policy", "delete_role_policy"}
           \subseteq Fns(calls)


\* the sub-step issued a mutating call
Mutated(s) == \E k \in DOMAIN s.calls : s.calls[k].fn \in MutatingFns

\* the sub-step starts with a read, and has read its sub-resource before its
\* first mutating call
ReadBeforeActing(s) ==
    /\ s.calls # <<>>
    /\ s.calls[1].fn \notin MutatingFns
    /\ \A k \in DOMAIN s.calls :
           s.calls[k].fn \in MutatingFns =>
               \E j \in 1..(k - 1) : s.calls[j].fn = FirstRead(s.step)

\* the sub-step's last call is a read
EndsWithRead(s) == s.calls[Len(s.calls)].fn \notin MutatingFns

PolicySteps == {"_policies_present", "_policies_absent"}

Observed(o_ret, o_calls) ==
    [calls |-> o_calls, result |-> o_ret.result, changes |-> o_ret.changes]

ObservedOutcomes(outcomes) == {Observed(o.ret, o.calls) : o \in outcomes}

\* C20: on every account, live and dry-run, _policies_absent and
\* _policies_present with no desired policy and delete_policies set have the
\* same outcomes (calls with their success, result, changes), and what an
\* executed policy step of absent did is such an outcome.
C20_DeleteAllEquivalence ==
    /\ \A test \in BOOLEAN :
           ObservedOutcomes(_policies_absent(iam, test)) =
               ObservedOutcomes(_policies_present(iam, EmptyDict, TRUE, test))
    /\ \A i \in DOMAIN steps :
           steps[i].step = "_policies_absent" =>
               Observed(steps[i].ret, steps[i].calls) \in
                   ObservedOutcomes(_policies_present(steps[i].before, EmptyDict,
                                                      TRUE, opts_test))

\* the policy step of a live absent removed one policy and failed on the next
C20_Witness ==
    /\ op = "absent" /\ ~opts_test /\ runs > 0
    /\ steps[1].step = "_policies_absent"
    /\ Succeeded(steps[1], "delete_role_policy")
    /\ steps[1].ret.result = "False"
    /\ Len(boto_iam_list_role_policies(steps[1].before)) = 2
    /\ Len(boto_iam_list_role_policies(steps[1].after)) = 1


\* C21: a policy step in which a delete_role_policy call failed returns the
\* removal failure message naming the policy of that call, in present and in
\* absent alike.
C21_RemovalFailureMessage ==
    \A i \in DOMAIN steps :
        \A k \in DOMAIN steps[i].calls :
            (/\ steps[i].step \in PolicySteps
             /\ steps[i].calls[k].fn = "delete_role_policy"
             /\ ~steps[i].calls[k].ok) =>
                steps[i].ret.comment =
                    Msg("Failed to remove policy from role", <<steps[i].calls[k].arg>>)


\* the account holds nothing of the role
Gone(acct) ==
    /\ ~acct.role
    /\ ~acct.instance_profile
    /\ ~acct.associated
    /\ acct.role_policies = EmptyDict

\* C22: when a live absent returns True the role has no policy, is not
\* associated, and neither the instance profile nor the role exists; a live
\* absent that follows one which returned True starts from such an account,
\* makes no mutating call, has empty changes and returns True.
C22_AbsentPostcondition ==
    /\ (Returned /\ op = "absent" /\ ~opts_test /\ ret.result = "True") => Gone(iam)
    /\ (op = "absent" /\ runs >= 2 /\ ~opts_test /\ last = "True") =>
           /\ Gone(iam0)
           /\ NoMutation(calls)
           /\ ret.changes = NoChanges
           /\ ret.result = "True"

\* a live absent removed two policies, the association, the instance profile
\* and the role, and returned True
C22_Witness ==
    /\ Returned /\ op = "absent" /\ ~opts_test /\ ret.result = "True"
    /\ Keys(iam0.role_policies) = PolicyNameSet
    /\ iam0.associated
    /\ {"delete_role_policy", "disassociate_profile_from_role",
        "delete_instance_profile", "delete_role"} \subseteq Fns(calls)
    /\ Gone(iam)


\* the call present or absent makes for one sub-step, with the arguments of
\* the current declaration
sub_step(step, acct, test) ==
    CASE step = "_role_present" -> _role_present(acct, args.policy_document, test)
      [] step = "_instance_profile_present" -> _instance_profile_present(acct, test)
      [] step = "_instance_profile_associated" -> _instance_profile_associated(acct, test)
      [] step = "_policies_present" ->
             _policies_present(acct, _policies, args.delete_policies, test)
      [] step = "_policies_absent" -> _policies_absent(acct, test)
      [] step = "_instance_profile_disassociated" ->
             _instance_profile_disassociated(acct, test)
      [] step = "_instance_profile_absent" -> _instance_profile_absent(acct, test)
      [] OTHER -> _role_absent(acct, test)

\* the boto_iam calls of the runs of the sub-steps todo from acct, one
\* sequence per pattern of failures: a run ends at the first False
RECURSIVE run_steps(_, _, _, _)
run_steps(todo, acct, test, made) ==
    IF todo = <<>> THEN {made}
    ELSE UNION {IF short_circuit(o.ret.result)
                THEN {made \o o.calls}
                ELSE run_steps(Tail(todo), o.iam, test, made \o o.calls)
                : o \in sub_step(Head(todo), acct, test)}

\* C23: the calls of a live present or absent are those of its sub-steps run
\* in a row from the account it started on; a dry-run present or absent never
\* returns False, returns True exactly when no live run of the same
\* declaration from the same account makes a mutating call, and returns None
\* exactly when every such live run makes one.
C23_DryRunAgreesWithLive ==
    /\ (Returned /\ ~opts_test) => calls \in run_steps(AllSteps, iam0, FALSE, <<>>)
    /\ (Returned /\ opts_test) =>
           LET live == run_steps(AllSteps, iam0, FALSE, <<>>)
           IN  /\ live # {}
               /\ ret.result # "False"
               /\ ret.result = "True" <=> \A c \in live : NoMutation(c)
               /\ ret.result = "None" <=> \A c \in live : ~NoMutation(c)

\* a dry-run present found the role and the instance profile in place and
\* the policies to be changed, where the live run would upsert and delete
C23_Witness ==
    /\ Returned /\ opts_test /\ op = "present"
    /\ Len(steps) = 4
    /\ steps[1].ret.result = "True" /\ steps[2].ret.result = "True"
    /\ steps[4].ret.result = "None"
    /\ ret.result = "None"
    /\ \E c \in run_steps(AllSteps, iam0, FALSE, <<>>) :
           {"create_role_policy", "delete_role_policy"} \subseteq Fns(c)

====
